---- MODULE Spec2Model ----
(***************************************************************************)
(* Model of the incremental batch-synchronisation engine of rixfix:        *)
(* supabase/functions/riksdag-api-sync/index.ts (circuit breaker, health   *)
(* check, rate limiter, retrying outbound call, single-cycle handler,      *)
(* strategic plan, batch handler) and the admin reset of a cursor.         *)
(*                                                                         *)
(* The clock `now` is in milliseconds.  sync_state.upsert is modelled as   *)
(* a merge on the unique sync_type column: the columns named in the        *)
(* payload are overwritten, the others keep their value (or take the       *)
(* column default when the row is created).                                *)
(***************************************************************************)
EXTENDS Integers, Sequences, FiniteSets, TLC

VARIABLES cursor, log, cb, now, health, rate, inv, call, resp, budget, obs,
          sizing, tables, proc, built, backoff, workers

vars == <<cursor, log, cb, now, health, rate, inv, call, resp, budget, obs,
          sizing, tables, proc, built, backoff, workers>>

----------------------------------------------------------------------------
(* Bounds of the model                                                     *)

MaxInvocations == 2      \* invocations started in one behaviour of Spec
MaxResets == 1           \* cursor resets in one behaviour
MaxFaults == 2           \* API answers other than a full batch, in Spec
MaxBreakerCalls == 4     \* outbound calls in one behaviour of SpecBreaker
MaxBreakerFaults == 6    \* failing API answers in one behaviour of SpecBreaker
MaxBreakerTicks == 2     \* idle clock advances in one behaviour of SpecBreaker
MaxRetryCalls == 1       \* outbound calls in one behaviour of SpecRetry
MaxRetryFaults == 10     \* failing API answers in one behaviour of SpecRetry
StartTime == 1000000     \* Date.now() when the process starts
RetryAfterSeconds == 5   \* value of a Retry-After header the API sends
MaxHealthCalls == 3      \* outbound calls in one behaviour of SpecHealth
MaxHealthFaults == 6     \* failing answers and probes in one behaviour of SpecHealth
MaxHealthTicks == 2      \* idle clock advances in one behaviour of SpecHealth
MaxRateCalls == 2        \* outbound calls in one behaviour of SpecRate
MaxRateFaults == 9       \* 429 answers in one behaviour of SpecRate
MaxRateTicks == 1        \* idle clock advances in one behaviour of SpecRate
MaxErrorCount == 7       \* largest retry_count getOptimalBatchSize is asked with
MaxProcessed == 3        \* external records processed in one behaviour of SpecRecords
MaxBatchLen == 2         \* records in one batch given to processDataByType
MaxFilters == 2          \* entries of the filters object given to buildApiUrl

----------------------------------------------------------------------------
(* Program constants                                                       *)

failureThreshold == 5
recoveryTimeout == 300000
halfOpenMaxCalls == 3
timeout == 60000
maxRetries == 8
baseDelay == 2000
maxDelay == 120000
backoffMultiplier == 2
jitterMax == 1000
networkTimeoutRetries == 3
requestsPerSecond == 1
HEALTH_CHECK_INTERVAL == 300000
PhaseDelay == 3000
DefaultBatchSizeSingle == 25
DefaultBatchSizeBatch == 50
FallbackBatchSize == 25
NominalResponseTime == 3000

\* API_CONFIG.phases, in ascending priority
PhaseOrder == <<"members", "committees", "documents", "debates", "votes">>

KnownTypes == {PhaseOrder[i] : i \in 1..Len(PhaseOrder)}

defaultBatchSize ==
  [t \in KnownTypes |->
     CASE t = "members" -> 100
       [] t = "committees" -> 25
       [] t = "documents" -> 50
       [] t = "debates" -> 40
       [] t = "votes" -> 75]

maxBatchSize ==
  [t \in KnownTypes |->
     CASE t = "members" -> 200
       [] t = "committees" -> 50
       [] t = "documents" -> 100
       [] t = "debates" -> 75
       [] t = "votes" -> 150]

\* the rows the migration inserts into sync_state
SeededTypes == {"members", "debates", "documents", "votes"}

NoError == "null"

Max(a, b) == IF a >= b THEN a ELSE b

Min(a, b) == IF a <= b THEN a ELSE b

RECURSIVE Pow(_, _)
Pow(b, k) == IF k = 0 THEN 1 ELSE b * Pow(b, k - 1)

----------------------------------------------------------------------------
(* Circuit breaker                                                         *)


\* mutant: the recovery timeout is taken as reached, not exceeded
CanMakeRequestAdmitsAtTimeout(c, t) ==
  CASE c.state = "OPEN" -> t - c.lastFailureTime >= recoveryTimeout
    [] c.state = "HALF_OPEN" -> c.successCount < halfOpenMaxCalls
    [] OTHER -> TRUE

CanMakeRequestAdmits(c, t) ==
  CASE c.state = "OPEN" -> t - c.lastFailureTime > recoveryTimeout
    [] c.state = "HALF_OPEN" -> c.successCount < halfOpenMaxCalls
    [] OTHER -> TRUE


\* mutant: the recovered breaker is admitted but left Open
CanMakeRequestStateStays(c, t) == c

CanMakeRequestState(c, t) ==
  IF c.state = "OPEN" /\ t - c.lastFailureTime > recoveryTimeout
  THEN [c EXCEPT !.state = "HALF_OPEN", !.successCount = 0]
  ELSE c


\* mutant: the breaker closes one success late
recordSuccessLate(c) ==
  CASE c.state = "HALF_OPEN" ->
         IF c.successCount + 1 > halfOpenMaxCalls
         THEN [c EXCEPT !.successCount = c.successCount + 1,
                        !.state = "CLOSED", !.failureCount = 0]
         ELSE [c EXCEPT !.successCount = c.successCount + 1]
    [] c.state = "CLOSED" ->
         [c EXCEPT !.failureCount = Max(0, c.failureCount - 1)]
    [] OTHER -> c

\* mutant: a success recorded while Open counts towards closing as well
recordSuccessWhileOpen(c) ==
  CASE c.state \in {"HALF_OPEN", "OPEN"} ->
         IF c.successCount + 1 >= halfOpenMaxCalls
         THEN [c EXCEPT !.successCount = c.successCount + 1,
                        !.state = "CLOSED", !.failureCount = 0]
         ELSE [c EXCEPT !.successCount = c.successCount + 1]
    [] c.state = "CLOSED" ->
         [c EXCEPT !.failureCount = Max(0, c.failureCount - 1)]
    [] OTHER -> c

recordSuccess(c) ==
  CASE c.state = "HALF_OPEN" ->
         IF c.successCount + 1 >= halfOpenMaxCalls
         THEN [c EXCEPT !.successCount = c.successCount + 1,
                        !.state = "CLOSED", !.failureCount = 0]
         ELSE [c EXCEPT !.successCount = c.successCount + 1]
    [] c.state = "CLOSED" ->
         [c EXCEPT !.failureCount = Max(0, c.failureCount - 1)]
    [] OTHER -> c

\* mutant: the breaker opens only when the threshold is exceeded
recordFailureAboveThreshold(c, t) ==
  LET c1 == [c EXCEPT !.failureCount = c.failureCount + 1,
                      !.lastFailureTime = t]
  IN  IF c1.state = "CLOSED" /\ c1.failureCount > failureThreshold
      THEN [c1 EXCEPT !.state = "OPEN"]
      ELSE IF c1.state = "HALF_OPEN"
           THEN [c1 EXCEPT !.state = "OPEN"]
           ELSE c1

recordFailure(c, t) ==
  LET c1 == [c EXCEPT !.failureCount = c.failureCount + 1,
                      !.lastFailureTime = t]
  IN  IF c1.state = "CLOSED" /\ c1.failureCount >= failureThreshold
      THEN [c1 EXCEPT !.state = "OPEN"]
      ELSE IF c1.state = "HALF_OPEN"
           THEN [c1 EXCEPT !.state = "OPEN"]
           ELSE c1

RECURSIVE ApplyOps(_, _, _)
ApplyOps(c, ops, t) ==
  IF ops = <<>> THEN c
  ELSE ApplyOps(IF Head(ops) = "S" THEN recordSuccess(c) ELSE recordFailure(c, t),
                Tail(ops), t)

----------------------------------------------------------------------------
(* Adaptive batch size                                                     *)

\* mutant: the reductions and the result lose their lower bound of 1
getOptimalBatchSizeNoFloor(syncType, responseTime, errorCount, cbState) ==
  IF syncType \notin KnownTypes THEN FallbackBatchSize
  ELSE
    LET b0 == defaultBatchSize[syncType] \div 2
        b1 == IF responseTime > 15000 THEN Max(5, (b0 * 3) \div 10)
              ELSE IF responseTime > 10000 THEN Max(10, b0 \div 2)
              ELSE IF responseTime > 5000 THEN Max(15, (b0 * 7) \div 10)
              ELSE IF responseTime < 2000 /\ errorCount = 0
                   THEN Min(maxBatchSize[syncType], (b0 * 11) \div 10)
                   ELSE b0
        b2 == IF errorCount > 5 THEN (b1 * 2) \div 10
              ELSE IF errorCount > 3 THEN Max(5, (b1 * 4) \div 10)
              ELSE IF errorCount > 1 THEN Max(10, (b1 * 6) \div 10)
              ELSE b1
        b3 == IF cbState = "HALF_OPEN" THEN b2 \div 2 ELSE b2
    IN  Min(maxBatchSize[syncType], b3)

getOptimalBatchSize(syncType, responseTime, errorCount, cbState) ==
  IF syncType \notin KnownTypes THEN FallbackBatchSize
  ELSE
    LET b0 == defaultBatchSize[syncType] \div 2
        b1 == IF responseTime > 15000 THEN Max(5, (b0 * 3) \div 10)
              ELSE IF responseTime > 10000 THEN Max(10, b0 \div 2)
              ELSE IF responseTime > 5000 THEN Max(15, (b0 * 7) \div 10)
              ELSE IF responseTime < 2000 /\ errorCount = 0
                   THEN Min(maxBatchSize[syncType], (b0 * 11) \div 10)
                   ELSE b0
        b2 == IF errorCount > 5 THEN Max(1, (b1 * 2) \div 10)
              ELSE IF errorCount > 3 THEN Max(5, (b1 * 4) \div 10)
              ELSE IF errorCount > 1 THEN Max(10, (b1 * 6) \div 10)
              ELSE b1
        b3 == IF cbState = "HALF_OPEN" THEN Max(1, b2 \div 2) ELSE b2
    IN  Max(1, Min(maxBatchSize[syncType], b3))

----------------------------------------------------------------------------
(* Health check                                                            *)

\* mutant: no result is kept, every call probes
HealthCachedNever(h, t) == FALSE

\* now - lastHealthCheck < HEALTH_CHECK_INTERVAL: the kept result is returned
HealthCached(h, t) == t - h.lastHealthCheck < HEALTH_CHECK_INTERVAL

----------------------------------------------------------------------------
(* Rate limiter: the time at which rateLimitedRequest runs requestFn        *)

\* mutant: the one-second window is not waited for
RateStartNoWindow(rt, t0) ==
  IF t0 < rt.rateLimitResetTime THEN rt.rateLimitResetTime ELSE t0

RateStart(rt, t0) ==
  LET t1 == IF t0 < rt.rateLimitResetTime THEN rt.rateLimitResetTime ELSE t0
      cnt == IF t0 - rt.lastRequestTime >= 1000 THEN 0 ELSE rt.requestCount
      w == 1000 - (t0 - rt.lastRequestTime)
  IN  IF cnt >= requestsPerSecond /\ w > 0 THEN t1 + w ELSE t1

----------------------------------------------------------------------------
(* Retry policy of makeRiksdagRequest                                      *)

Jitters == {0, jitterMax - 1}

addJitter(delay, j) == delay + j

Backoff(k) == baseDelay * Pow(backoffMultiplier, k)

\* what the API can answer to one GET
Responses ==
  {"ok", "emptyObject", "emptyList", "singleObject",
   "r429", "r429RetryAfter", "r413", "r5xx", "r404", "rOther",
   "badContentType", "badJson", "timeout", "network"}

\* The body of the try block for response r on attempt k with jitter j.
\* kind: "return" (a result), "retry" (recursive call), "thrown" (an error
\* raised inside the try block, which the catch block then receives).
\* ops: the recordSuccess / recordFailure calls made, delay: the sleep,
\* sleepFirst: the sleep precedes the ops, elapsed: duration of the fetch.
TryBlock(r, k, j) ==
  LET base == [kind |-> "thrown", result |-> "none", error |-> "none",
               ops |-> <<>>, delay |-> 0, sleepFirst |-> FALSE,
               elapsed |-> 0, setReset |-> FALSE]
  IN
  CASE r \in {"r429", "r429RetryAfter"} ->
         LET d == IF r = "r429RetryAfter" THEN RetryAfterSeconds * 1000
                  ELSE Min(addJitter(Backoff(k), j), maxDelay)
         IN  IF k < maxRetries
             THEN [base EXCEPT !.kind = "retry", !.delay = d,
                               !.sleepFirst = TRUE, !.setReset = TRUE]
             ELSE [base EXCEPT !.error = "RateLimitExceeded", !.ops = <<"F">>,
                               !.delay = d, !.sleepFirst = TRUE,
                               !.setReset = TRUE]
    [] r = "r413" ->
         [base EXCEPT !.error = "ResponseTooLargeError", !.ops = <<"F">>]
    [] r = "r5xx" ->
         IF k < maxRetries
         THEN [base EXCEPT !.kind = "retry",
                           !.delay = addJitter(Min(Backoff(k), maxDelay), j)]
         ELSE [base EXCEPT !.error = "ServerError", !.ops = <<"F">>]
    [] r = "r404" ->
         [base EXCEPT !.error = "EndpointNotFound", !.ops = <<"F">>]
    [] r = "rOther" ->
         [base EXCEPT !.error = "HTTPError", !.ops = <<"F">>]
    [] r = "badContentType" ->
         [base EXCEPT !.error = "InvalidContentType", !.ops = <<"F">>]
    [] r = "badJson" ->
         [base EXCEPT !.error = "SyntaxError"]
    [] r = "timeout" ->
         [base EXCEPT !.error = "AbortError", !.elapsed = timeout]
    [] r = "network" ->
         [base EXCEPT !.error = "TypeError"]
    [] r \in {"emptyObject", "emptyList", "singleObject"} ->
         [base EXCEPT !.kind = "return", !.result = "empty", !.ops = <<"S">>]
    [] OTHER ->
         [base EXCEPT !.kind = "return", !.result = "data", !.ops = <<"S">>]


\* mutant: the general retry forgets the attempt ceiling
CatchBlockNoCeiling(o, k, j) ==
  IF o.kind # "thrown" THEN o
  ELSE
  CASE o.error = "AbortError" ->
         IF k < networkTimeoutRetries
         THEN [o EXCEPT !.kind = "retry",
                        !.delay = addJitter(baseDelay * 2, j)]
         ELSE [o EXCEPT !.kind = "throw", !.error = "TimeoutError",
                        !.ops = Append(o.ops, "F")]
    [] o.error = "TypeError" ->
         IF k < networkTimeoutRetries
         THEN [o EXCEPT !.kind = "retry",
                        !.delay = addJitter(Min(Backoff(k), maxDelay), j)]
         ELSE [o EXCEPT !.kind = "throw", !.error = "NetworkError",
                        !.ops = Append(o.ops, "F")]
    [] o.error \in {"CircuitBreakerOpen", "HealthCheckFailed",
                    "ResponseTooLargeError"} ->
         [o EXCEPT !.kind = "throw"]
    [] OTHER ->
         [o EXCEPT !.kind = "retry",
                   !.delay = o.delay + addJitter(Min(Backoff(k), maxDelay), j)]

\* mutant: a too-large response is not among the errors never retried
CatchBlockRetriesTooLarge(o, k, j) ==
  IF o.kind # "thrown" THEN o
  ELSE
  CASE o.error = "AbortError" ->
         IF k < networkTimeoutRetries
         THEN [o EXCEPT !.kind = "retry",
                        !.delay = addJitter(baseDelay * 2, j)]
         ELSE [o EXCEPT !.kind = "throw", !.error = "TimeoutError",
                        !.ops = Append(o.ops, "F")]
    [] o.error = "TypeError" ->
         IF k < networkTimeoutRetries
         THEN [o EXCEPT !.kind = "retry",
                        !.delay = addJitter(Min(Backoff(k), maxDelay), j)]
         ELSE [o EXCEPT !.kind = "throw", !.error = "NetworkError",
                        !.ops = Append(o.ops, "F")]
    [] o.error \in {"CircuitBreakerOpen", "HealthCheckFailed"} ->
         [o EXCEPT !.kind = "throw"]
    [] OTHER ->
         IF k < maxRetries
         THEN [o EXCEPT !.kind = "retry",
                        !.delay = o.delay + addJitter(Min(Backoff(k), maxDelay), j)]
         ELSE [o EXCEPT !.kind = "throw", !.ops = Append(o.ops, "F")]

\* mutant: an aborted request is retried up to the general ceiling
CatchBlockTimeoutGeneral(o, k, j) ==
  IF o.kind # "thrown" THEN o
  ELSE
  CASE o.error = "AbortError" ->
         IF k < maxRetries
         THEN [o EXCEPT !.kind = "retry",
                        !.delay = addJitter(baseDelay * 2, j)]
         ELSE [o EXCEPT !.kind = "throw", !.error = "TimeoutError",
                        !.ops = Append(o.ops, "F")]
    [] o.error = "TypeError" ->
         IF k < networkTimeoutRetries
         THEN [o EXCEPT !.kind = "retry",
                        !.delay = addJitter(Min(Backoff(k), maxDelay), j)]
         ELSE [o EXCEPT !.kind = "throw", !.error = "NetworkError",
                        !.ops = Append(o.ops, "F")]
    [] o.error \in {"CircuitBreakerOpen", "HealthCheckFailed",
                    "ResponseTooLargeError"} ->
         [o EXCEPT !.kind = "throw"]
    [] OTHER ->
         IF k < maxRetries
         THEN [o EXCEPT !.kind = "retry",
                        !.delay = o.delay + addJitter(Min(Backoff(k), maxDelay), j)]
         ELSE [o EXCEPT !.kind = "throw", !.ops = Append(o.ops, "F")]

\* The catch block, given what the try block did.
CatchBlock(o, k, j) ==
  IF o.kind # "thrown" THEN o
  ELSE
  CASE o.error = "AbortError" ->
         IF k < networkTimeoutRetries
         THEN [o EXCEPT !.kind = "retry",
                        !.delay = addJitter(baseDelay * 2, j)]
         ELSE [o EXCEPT !.kind = "throw", !.error = "TimeoutError",
                        !.ops = Append(o.ops, "F")]
    [] o.error = "TypeError" ->
         IF k < networkTimeoutRetries
         THEN [o EXCEPT !.kind = "retry",
                        !.delay = addJitter(Min(Backoff(k), maxDelay), j)]
         ELSE [o EXCEPT !.kind = "throw", !.error = "NetworkError",
                        !.ops = Append(o.ops, "F")]
    [] o.error \in {"CircuitBreakerOpen", "HealthCheckFailed",
                    "ResponseTooLargeError"} ->
         [o EXCEPT !.kind = "throw"]
    [] OTHER ->
         IF k < maxRetries
         THEN [o EXCEPT !.kind = "retry",
                        !.delay = o.delay + addJitter(Min(Backoff(k), maxDelay), j)]
         ELSE [o EXCEPT !.kind = "throw", !.ops = Append(o.ops, "F")]

\* mutant: a 429 is retried at once and leaves no reset time
AttemptNoCooldown(r, k, j) ==
  LET o == CatchBlock(TryBlock(r, k, j), k, j)
  IN  IF r \in {"r429", "r429RetryAfter"}
      THEN [o EXCEPT !.delay = 0, !.setReset = FALSE]
      ELSE o

Attempt(r, k, j) == CatchBlock(TryBlock(r, k, j), k, j)

----------------------------------------------------------------------------
(* State                                                                   *)

\* a syncType the API configuration does not know
UnknownTypes == {"strategic_plan"}

AllTypes == KnownTypes \cup UnknownTypes

\* a sync_state row with the column defaults
DefaultRow ==
  [exists |-> FALSE, offset |-> 0, totalFetched |-> 0, isComplete |-> FALSE,
   lastError |-> NoError, retryCount |-> 0]

\* let circuitBreakerState = {...}
ClosedBreaker ==
  [state |-> "CLOSED", failureCount |-> 0, lastFailureTime |-> 0,
   successCount |-> 0]

\* observations of a call: last, the latest answer; only, the answer all its
\* attempts got ("mixed": they differ); cb0, the breaker when it was made;
\* failures, the recordFailure() calls of all its attempts
NoCall ==
  [pc |-> "idle", retryCount |-> 0, gets |-> 0, heads |-> 0,
   result |-> "none", error |-> "none", items |-> 0, ops |-> <<>>,
   last |-> "none", only |-> "none", cb0 |-> ClosedBreaker, failures |-> 0]

\* observation: the latest 429 answer, received at time at on attempt k with
\* jitter j
NoCooling == [r |-> "none", at |-> 0, k |-> 0, j |-> 0]

\* the concurrent invocations of the edge function
Workers == {1, 2}

\* no retry delay asked for
NoBackoff == [pc |-> "idle", r |-> "none", k |-> 0, j |-> 0, delay |-> 0]

\* an invocation that has not read the cursor yet
NoWorker ==
  [pc |-> "idle", logId |-> 0, syncState |-> DefaultRow, currentOffset |-> 0,
   batch |-> 0, recordsProcessed |-> 0, wrote |-> 0]

NoInv ==
  [kind |-> "idle", syncType |-> "none", pc |-> "idle", logId |-> 0,
   syncState |-> DefaultRow, currentOffset |-> 0, errorCount |-> 0,
   batch |-> 0, phase |-> 0, totalProcessed |-> 0, results |-> <<>>,
   net |-> 0, visits |-> <<>>]

\* the endpoint templates that carry a page-size parameter (sz= or a_sz=)
SizedEndpoints == {"debates", "documents", "votes"}

NoUrl == [endpoint |-> "none", size |-> 0, page |-> 0]

\* mutant: no page parameter is appended, every request asks for page 1
buildApiUrlNoPage(syncType, offset, batchSize) ==
  [endpoint |-> syncType,
   size |-> IF syncType \in SizedEndpoints THEN batchSize ELSE 0,
   page |-> 0]

\* buildApiUrl without filters: the endpoint of the type, the page size put
\* into the template's size parameter (0: the template has none) and the
\* page parameter appended when offset > 0 (0: none appended)
buildApiUrl(syncType, offset, batchSize) ==
  [endpoint |-> syncType,
   size |-> IF syncType \in SizedEndpoints THEN batchSize ELSE 0,
   page |-> IF offset > 0 THEN (offset \div batchSize) + 1 ELSE 0]

NoResp ==
  [kind |-> "none", syncType |-> "none", status |-> 0, success |-> FALSE,
   recordsProcessed |-> 0, isComplete |-> FALSE, error |-> "none",
   batch |-> 0, before |-> DefaultRow, net |-> 0, logId |-> 0,
   result |-> "none", totalProcessed |-> 0, results |-> <<>>,
   visits |-> <<>>, url |-> NoUrl, cancelled |-> FALSE, answer |-> "none"]

\* no adaptive batch size asked for
NoSizing ==
  [pc |-> "idle", syncType |-> "none", responseTime |-> 0, errorCount |-> 0,
   cbState |-> "CLOSED", size |-> 0]

\* the record tables, empty
NoTables == [t \in KnownTypes |-> {}]

\* the edge function's module state and the database after the migrations
InitProgram ==
  /\ cursor = [t \in AllTypes |->
                 IF t \in SeededTypes THEN [DefaultRow EXCEPT !.exists = TRUE]
                 ELSE DefaultRow]
  /\ log = <<>>
  /\ cb = ClosedBreaker
  /\ now = StartTime
  /\ health = [lastHealthCheck |-> 0, isApiHealthy |-> TRUE]
  /\ rate = [lastRequestTime |-> 0, requestCount |-> 0,
             rateLimitResetTime |-> 0]
  /\ inv = NoInv
  /\ call = NoCall
  /\ resp = NoResp
  /\ budget = [invocations |-> 0, ticks |-> 0, resets |-> 0, faults |-> 0,
               ops |-> 0]
  /\ obs = [streak |-> 0, processed |-> 0, latest |-> [t \in KnownTypes |-> {}],
            cooling |-> NoCooling, halfOpenGets |-> 0,
            fetched |-> [t \in KnownTypes |-> {}]]
  /\ workers = [w \in Workers |-> NoWorker]

\* processDataByType not called
NoProc ==
  [pc |-> "idle", syncType |-> "none", items |-> <<>>, recordsProcessed |-> 0,
   upserted |-> 0]

\* buildApiUrl not called
NoBuilt ==
  [pc |-> "idle", syncType |-> "none", filters |-> <<>>, offset |-> 0,
   batchSize |-> 0, url |-> <<>>]

Init ==
  /\ InitProgram
  /\ backoff = NoBackoff
  /\ sizing = NoSizing
  /\ tables = NoTables
  /\ proc = NoProc
  /\ built = NoBuilt

\* sync_state.upsert(payload): the row is created when missing
Upsert(row, payload) ==
  [f \in DOMAIN row |->
     IF f = "exists" THEN TRUE
     ELSE IF f \in DOMAIN payload THEN payload[f] ELSE row[f]]

\* sync_state.update(payload).eq('sync_type', t): no row, no change
Update(row, payload) ==
  IF row.exists THEN Upsert(row, payload) ELSE row

\* syncState?.field || 0 of a row that may be missing
ReadRow(row) == IF row.exists THEN row ELSE DefaultRow

----------------------------------------------------------------------------
(* Observation: the number of failures recorded in a row since the breaker *)
(* was Closed with failureCount = 0; -1 once a success or a recovery has   *)
(* interrupted the row                                                     *)

RECURSIVE StreakAfter(_, _, _, _)
StreakAfter(k, c, ops, t) ==
  IF ops = <<>> THEN k
  ELSE LET c1 == IF Head(ops) = "S" THEN recordSuccess(c)
                 ELSE recordFailure(c, t)
           k1 == IF c1.state = "CLOSED" /\ c1.failureCount = 0 THEN 0
                 ELSE IF Head(ops) = "S" \/ k < 0 THEN -1
                 ELSE k + 1
       IN  StreakAfter(k1, c1, Tail(ops), t)

----------------------------------------------------------------------------
(* makeRiksdagRequest, one recursion level in three steps                  *)

\* observation: the recordFailure() calls among ops
Failures(ops) == Cardinality({i \in DOMAIN ops : ops[i] = "F"})

\* if (!canMakeRequest()) throw CircuitBreakerOpen
CallGate ==
  /\ call.pc = "gate"
  /\ cb' = CanMakeRequestState(cb, now)
  /\ call' = IF CanMakeRequestAdmits(cb, now)
             THEN [call EXCEPT !.pc = "health", !.ops = <<>>]
             ELSE [call EXCEPT !.pc = "done", !.result = "error",
                               !.error = "CircuitBreakerOpen", !.ops = <<>>]
  /\ obs' = IF cb'.state # cb.state
            THEN [obs EXCEPT !.streak = -1, !.halfOpenGets = 0]
            ELSE obs
  /\ UNCHANGED <<cursor, log, now, health, rate, inv, resp, budget,
               sizing, tables, proc, built, backoff, workers>>

\* if (!await performHealthCheck()) throw HealthCheckFailed
CallHealth(maxFaults) ==
  /\ call.pc = "health"
  /\ \E probe \in BOOLEAN :
       LET cached == HealthCached(health, now)
           healthy == IF cached THEN health.isApiHealthy ELSE probe
       IN  /\ ~cached /\ ~probe => budget.faults < maxFaults
           /\ budget' = IF ~cached /\ ~probe
                        THEN [budget EXCEPT !.faults = @ + 1] ELSE budget
           /\ health' = IF cached THEN health
                        ELSE [lastHealthCheck |-> now, isApiHealthy |-> probe]
           /\ call' = [call EXCEPT
                         !.heads = IF cached THEN @ ELSE @ + 1,
                         !.pc = IF healthy THEN "fetch" ELSE "done",
                         !.result = IF healthy THEN @ ELSE "error",
                         !.error = IF healthy THEN @ ELSE "HealthCheckFailed"]
  /\ UNCHANGED <<cursor, log, cb, now, rate, inv, resp, obs, sizing, tables, proc, built, backoff, workers>>

\* the item counts the API may return for a requested batch size
ItemCounts(b) == {n \in {b - 1, b, b + 1} : n >= 1}

SuccessKinds == {"ok", "emptyObject", "emptyList", "singleObject"}

\* rateLimitedRequest(fetch + response handling), the API answering with a
\* response of R and Math.random() giving a jitter of J; at most maxFaults
\* answers of one behaviour are anything else than a full batch of records
CallFetch(R, J, maxFaults) ==
  /\ call.pc = "fetch"
  /\ \E r \in R, j \in J, n \in ItemCounts(inv.batch) \cup {0} :
       LET t == RateStart(rate, now)
           o == Attempt(r, call.retryCount, j)
           tOps == t + o.elapsed + (IF o.sleepFirst THEN o.delay ELSE 0)
           full == r = "ok" /\ n = Max(inv.batch, 1)
           only == IF call.only \in {"none", r} THEN r ELSE "mixed"
       IN  /\ ~full => budget.faults < maxFaults
           /\ n = 0 <=> r # "ok"
           /\ budget' = IF full THEN budget
                        ELSE [budget EXCEPT !.faults = @ + 1]
           /\ rate' = [lastRequestTime |-> t, requestCount |-> 1,
                       rateLimitResetTime |->
                         IF o.setReset THEN t + o.delay
                         ELSE rate.rateLimitResetTime]
           /\ cb' = ApplyOps(cb, o.ops, tOps)
           /\ obs' = [obs EXCEPT
                        !.streak = StreakAfter(@, cb, o.ops, tOps),
                        !.halfOpenGets = IF cb.state = "HALF_OPEN" THEN @ + 1
                                         ELSE @,
                        !.cooling = IF r \in {"r429", "r429RetryAfter"}
                                    THEN [r |-> r, at |-> t,
                                          k |-> call.retryCount,
                                          j |-> IF r = "r429" THEN j ELSE 0]
                                    ELSE @]
           /\ now' = t + o.elapsed + o.delay
           /\ call' =
                CASE o.kind = "retry" ->
                       [call EXCEPT !.pc = "gate", !.gets = @ + 1,
                                    !.retryCount = @ + 1, !.ops = o.ops,
                                    !.last = r, !.only = only,
                                    !.failures = @ + Failures(o.ops)]
                  [] o.kind = "return" ->
                       [call EXCEPT !.pc = "done", !.gets = @ + 1,
                                    !.result = o.result, !.ops = o.ops,
                                    !.items = n, !.last = r, !.only = only,
                                    !.failures = @ + Failures(o.ops)]
                  [] OTHER ->
                       [call EXCEPT !.pc = "done", !.gets = @ + 1,
                                    !.result = "error", !.error = o.error,
                                    !.ops = o.ops, !.last = r, !.only = only,
                                    !.failures = @ + Failures(o.ops)]
  /\ UNCHANGED <<cursor, log, health, inv, resp, sizing, tables, proc, built, backoff, workers>>

----------------------------------------------------------------------------
(* serve: single sync type execution                                       *)

LogStart(t) ==
  Append(log, [syncType |-> t, status |-> "running", records |-> 0,
               error |-> NoError, transitions |-> 0])

\* api_sync_log.update(...).eq('id', id)
LogEnd(l, id, st, n, e) ==
  [l EXCEPT ![id] = [@ EXCEPT !.status = st, !.records = n, !.error = e,
                              !.transitions = @ + 1]]


\* mutant: a failure sets retry_count to 1 instead of counting up
CursorErrorFixed(row, e, retries) ==
  Upsert(row, [lastError |-> e, retryCount |-> 1])

\* the cursor update of a failed cycle
CursorError(row, e, retries) ==
  Upsert(row, [lastError |-> e, retryCount |-> retries + 1])

\* catch of the single execution: attempt failed, cursor error, re-raise
FailSingle(l, id, t, e, before, net) ==
  /\ log' = LogEnd(l, id, "failed", 0, e)
  /\ cursor' = [cursor EXCEPT ![t] =
                  CursorError(@, e, ReadRow(cursor[t]).retryCount)]
  /\ resp' = [NoResp EXCEPT !.kind = "single", !.syncType = t,
                            !.status = 500, !.error = e, !.result = "error",
                            !.before = before, !.net = net, !.logId = id]

\* the batch sizes a caller sends with a request
RequestBatchSizes == {DefaultBatchSizeSingle - 15, DefaultBatchSizeSingle}

\* mutant: a preview reports the adaptive batch size, not the caller's
CycleBatchSizeAdaptive(preview, batchSize, optimal) == optimal

\* preview ? batchSize : getOptimalBatchSize(...)
CycleBatchSize(preview, batchSize, optimal) ==
  IF preview THEN batchSize ELSE optimal

\* a request {syncType, batchSize, preview} for a type of T, previews drawn
\* from P
StartSingle(T, P, maxInv) ==
  /\ inv.kind = "idle"
  /\ budget.invocations < maxInv
  /\ budget' = [budget EXCEPT !.invocations = @ + 1]
  /\ \E t \in T, preview \in P, batchSize \in RequestBatchSizes :
       LET row == ReadRow(cursor[t])
           b == CycleBatchSize(preview, batchSize,
                               getOptimalBatchSize(t, NominalResponseTime,
                                                   row.retryCount, cb.state))
           id == Len(log) + 1
           started == [NoInv EXCEPT !.kind = "single", !.syncType = t,
                                    !.logId = id, !.syncState = cursor[t],
                                    !.currentOffset = row.offset,
                                    !.errorCount = row.retryCount,
                                    !.batch = b]
       IN  IF t \notin KnownTypes
           THEN \* buildApiUrl throws: Unknown sync type
                /\ inv' = NoInv
                /\ FailSingle(LogStart(t), id, t, "UnknownSyncType",
                              cursor[t], 0)
                /\ UNCHANGED call
           ELSE IF preview
           THEN /\ inv' = NoInv
                /\ log' = LogStart(t)
                /\ resp' = [NoResp EXCEPT !.kind = "preview", !.syncType = t,
                                          !.status = 200, !.success = TRUE,
                                          !.batch = b, !.before = cursor[t],
                                          !.url = buildApiUrl(t, row.offset, b),
                                          !.logId = id]
                /\ UNCHANGED <<cursor, call>>
           ELSE /\ inv' = [started EXCEPT !.pc = "call"]
                /\ log' = LogStart(t)
                /\ call' = [NoCall EXCEPT !.pc = "gate", !.cb0 = cb]
                /\ resp' = NoResp
                /\ UNCHANGED cursor
  /\ UNCHANGED <<cb, now, health, rate, obs, sizing, tables, proc, built, backoff, workers>>


\* mutant: a full batch already marks the cursor complete
CompleteAfterInclusive(n, b) == n <= b

\* is_complete of a cycle that processed n records with batch size b
CompleteAfter(n, b) == n < b


\* mutant: a success leaves last_error and retry_count as they were
CursorAdvanceKeepsError(row, off, tot, n, b) ==
  Upsert(row, [offset |-> off + n, totalFetched |-> tot + n,
               isComplete |-> n < b])

\* mutant: the offset is set to the batch's count instead of advanced by it
CursorAdvanceAbsolute(row, off, tot, n, b) ==
  Upsert(row, [offset |-> n, totalFetched |-> tot + n,
               retryCount |-> 0, lastError |-> NoError,
               isComplete |-> n < b])

\* mutant: the update increments the stored row instead of the values read
CursorAdvanceIncrement(row, off, tot, n, b) ==
  Upsert(row, [offset |-> ReadRow(row).offset + n,
               totalFetched |-> ReadRow(row).totalFetched + n,
               retryCount |-> 0, lastError |-> NoError,
               isComplete |-> CompleteAfter(n, b)])

\* the cursor update of a cycle that processed n records
CursorAdvance(row, off, tot, n, b) ==
  Upsert(row, [offset |-> off + n, totalFetched |-> tot + n,
               retryCount |-> 0, lastError |-> NoError,
               isComplete |-> CompleteAfter(n, b)])


\* mutant: the upsert replaces the row, the unnamed columns fall to defaults
CursorEmptyReplaces(row) ==
  [DefaultRow EXCEPT !.exists = TRUE, !.isComplete = TRUE]

\* the cursor update of a cycle whose response was empty
CursorEmpty(row) ==
  Upsert(row, [isComplete |-> TRUE, retryCount |-> 0, lastError |-> NoError])

FinishSingle(maxFaults) ==
  /\ inv.kind = "single"
  /\ call.pc = "done"
  /\ LET t == inv.syncType
         net == call.gets + call.heads
     IN
     \E mapThrows \in BOOLEAN :
       /\ mapThrows => call.result = "data" /\ budget.faults < maxFaults
       /\ budget' = IF mapThrows THEN [budget EXCEPT !.faults = @ + 1]
                    ELSE budget
       /\ inv' = NoInv
       /\ call' = NoCall
       /\ CASE call.result = "error" ->
                 FailSingle(log, inv.logId, t, call.error, inv.syncState, net)
            [] call.result = "empty" ->
                 /\ cursor' = [cursor EXCEPT ![t] = CursorEmpty(@)]
                 /\ log' = LogEnd(log, inv.logId, "completed", 0, NoError)
                 /\ resp' = [NoResp EXCEPT !.kind = "single", !.syncType = t,
                               !.status = 200, !.success = TRUE,
                               !.recordsProcessed = 0, !.isComplete = TRUE,
                               !.result = "empty", !.answer = call.last,
                               !.batch = inv.batch, !.before = inv.syncState,
                               !.net = net, !.logId = inv.logId]
            [] OTHER ->
                 IF mapThrows
                 THEN FailSingle(log, inv.logId, t, "TypeError",
                                 inv.syncState, net)
                 ELSE
                 LET n == call.items
                 IN  /\ cursor' = [cursor EXCEPT ![t] =
                           CursorAdvance(@, inv.currentOffset,
                                         ReadRow(inv.syncState).totalFetched,
                                         n, inv.batch)]
                     /\ log' = LogEnd(log, inv.logId, "completed", n, NoError)
                     /\ resp' = [NoResp EXCEPT !.kind = "single",
                           !.syncType = t, !.status = 200, !.success = TRUE,
                           !.recordsProcessed = n, !.result = "data",
                           !.answer = call.last,
                           !.isComplete = CompleteAfter(n, inv.batch),
                           !.batch = inv.batch, !.before = inv.syncState,
                           !.net = net, !.logId = inv.logId]
  /\ UNCHANGED <<cb, now, health, rate, obs, sizing, tables, proc, built, backoff, workers>>

----------------------------------------------------------------------------
(* serve: strategic plan                                                   *)

PlanName == "strategic_plan"

StartPlan(maxInv) ==
  /\ inv.kind = "idle"
  /\ budget.invocations < maxInv
  /\ budget' = [budget EXCEPT !.invocations = @ + 1]
  /\ log' = LogStart(PlanName)
  /\ inv' = [NoInv EXCEPT !.kind = "plan", !.syncType = PlanName,
                          !.logId = Len(log) + 1, !.pc = "phase",
                          !.phase = 1]
  /\ resp' = NoResp
  /\ UNCHANGED <<cursor, cb, now, health, rate, call, obs, sizing, tables, proc, built, backoff, workers>>

\* observation: what the loop did with phase p, whose cursor read
\* is_complete = wasComplete: "skipped", or a cycle that ended with "data"
\* (n records), "empty" or "error" (message e) after net outbound requests
Visit(p, wasComplete, outcome, n, e, net) ==
  [phase |-> p, wasComplete |-> wasComplete, outcome |-> outcome,
   processed |-> n, error |-> e, net |-> net]

\* mutant: a complete phase is run again
PhaseSkippedNever(row) == FALSE

\* if (syncState?.is_complete) continue
PhaseSkipped(row) == row.isComplete

\* loop head: load the cursor of the next phase, skip it or start its cycle
PlanPhase ==
  /\ inv.kind = "plan"
  /\ inv.pc = "phase"
  /\ inv.phase <= Len(PhaseOrder)
  /\ LET p == PhaseOrder[inv.phase]
         row == ReadRow(cursor[p])
     IN  IF PhaseSkipped(row)
         THEN /\ inv' = [inv EXCEPT !.phase = @ + 1,
                           !.visits = Append(@, Visit(p, row.isComplete,
                                                      "skipped", 0, NoError, 0))]
              /\ UNCHANGED call
         ELSE /\ inv' = [inv EXCEPT
                           !.pc = "call", !.syncState = cursor[p],
                           !.currentOffset = row.offset,
                           !.errorCount = row.retryCount,
                           !.batch = getOptimalBatchSize(p, NominalResponseTime,
                                                         row.retryCount, cb.state)]
              /\ call' = [NoCall EXCEPT !.pc = "gate", !.cb0 = cb]
  /\ UNCHANGED <<cursor, log, cb, now, health, rate, resp, budget, obs,
               sizing, tables, proc, built, backoff, workers>>

\* mutant: the summary entry of a failed phase loses its error message
PhaseResultDropsError(p, n, b, e) ==
  [phase |-> p, processed |-> n, batchSize |-> b, error |-> NoError,
   isComplete |-> IF e = NoError THEN CompleteAfter(n, b) ELSE FALSE]

PhaseResult(p, n, b, e) ==
  [phase |-> p, processed |-> n, batchSize |-> b, error |-> e,
   isComplete |-> IF e = NoError THEN CompleteAfter(n, b) ELSE FALSE]

\* the end of a phase's cycle, then the inter-phase delay
PlanPhaseFinish(maxFaults) ==
  /\ inv.kind = "plan"
  /\ inv.pc = "call"
  /\ call.pc = "done"
  /\ LET p == PhaseOrder[inv.phase]
         own == call.gets + call.heads
         net == inv.net + own
         was == ReadRow(inv.syncState).isComplete
         failed(e) ==
           /\ cursor' = [cursor EXCEPT ![p] = CursorError(@, e, inv.errorCount)]
           /\ inv' = [inv EXCEPT !.pc = "phase", !.phase = @ + 1, !.net = net,
                        !.results = Append(@, PhaseResult(p, 0, inv.batch, e)),
                        !.visits = Append(@, Visit(p, was, "error", 0, e, own))]
     IN
     \E mapThrows \in BOOLEAN :
       /\ mapThrows => call.result = "data" /\ budget.faults < maxFaults
       /\ budget' = IF mapThrows THEN [budget EXCEPT !.faults = @ + 1]
                    ELSE budget
       /\ call' = NoCall
       /\ CASE call.result = "error" -> failed(call.error)
            [] call.result = "empty" ->
                 /\ cursor' = [cursor EXCEPT ![p] = CursorEmpty(@)]
                 /\ inv' = [inv EXCEPT !.pc = "phase", !.phase = @ + 1,
                          !.net = net,
                          !.visits = Append(@, Visit(p, was, "empty", 0,
                                                     NoError, own))]
            [] OTHER ->
                 IF mapThrows THEN failed("TypeError")
                 ELSE
                 LET n == call.items
                 IN  /\ cursor' = [cursor EXCEPT ![p] =
                           CursorAdvance(@, inv.currentOffset,
                                         ReadRow(inv.syncState).totalFetched,
                                         n, inv.batch)]
                     /\ inv' = [inv EXCEPT !.pc = "phase", !.phase = @ + 1,
                          !.net = net,
                          !.totalProcessed = @ + n,
                          !.results = Append(@, PhaseResult(p, n, inv.batch,
                                                            NoError)),
                          !.visits = Append(@, Visit(p, was, "data", n,
                                                     NoError, own))]
  /\ now' = now + PhaseDelay
  /\ UNCHANGED <<log, cb, health, rate, resp, obs, sizing, tables, proc, built, backoff, workers>>

PlanEnd ==
  /\ inv.kind = "plan"
  /\ inv.pc = "phase"
  /\ inv.phase > Len(PhaseOrder)
  /\ log' = LogEnd(log, inv.logId, "completed", inv.totalProcessed, NoError)
  /\ resp' = [NoResp EXCEPT !.kind = "plan", !.syncType = PlanName,
                            !.status = 200, !.success = TRUE,
                            !.totalProcessed = inv.totalProcessed,
                            !.results = inv.results, !.net = inv.net,
                            !.visits = inv.visits,
                            !.logId = inv.logId]
  /\ inv' = NoInv
  /\ UNCHANGED <<cursor, cb, now, health, rate, call, budget, obs,
               sizing, tables, proc, built, backoff, workers>>

----------------------------------------------------------------------------
(* serve: batch sync handler                                               *)

\* api_sync_log.update(...).eq('sync_type', t).eq('status', 'running')
LogEndRunning(l, t, st, n, e) ==
  [i \in DOMAIN l |->
     IF l[i].syncType = t /\ l[i].status = "running"
     THEN [l[i] EXCEPT !.status = st, !.records = n, !.error = e,
                       !.transitions = @ + 1]
     ELSE l[i]]

\* what the plain fetch and the bulk upsert of sync<Type>Batch can do
BatchOutcomes == {"ok", "notOk", "networkError", "upsertError"}

\* the types sync<Type>Batch exists for
BatchTypes == {"members", "debates", "documents", "votes"}

\* the lengths allItems.slice(offset, offset + b) can have
SliceCounts(b) == {n \in {0, b - 1, b} : n >= 0}

\* a request {syncType} to the batch handler; cancel: the caller gives the
\* request up while the fetch is pending, which nothing passes on to the
\* handler's AbortController (it is created and never aborted)
BatchSync(T, maxInv, maxFaults) ==
  /\ inv.kind = "idle"
  /\ budget.invocations < maxInv
  /\ \E t \in T, o \in BatchOutcomes, n \in SliceCounts(DefaultBatchSizeBatch),
        cancel \in BOOLEAN :
       LET row == cursor[t]
           b == DefaultBatchSizeBatch
           fetched == row.exists /\ ~row.isComplete /\ t \in BatchTypes
           r0 == [NoResp EXCEPT !.kind = "batch", !.syncType = t,
                                !.batch = b, !.before = row,
                                !.cancelled = cancel,
                                !.logId = IF row.exists /\ ~row.isComplete
                                          THEN Len(log) + 1 ELSE 0]
           crashed == t \notin BatchTypes \/ o # "ok"
       IN  /\ cancel => fetched
           /\ o # "ok" => n = 0 /\ budget.faults < maxFaults
           /\ budget' = [budget EXCEPT
                           !.invocations = @ + 1,
                           !.faults = IF o # "ok" /\ row.exists /\ ~row.isComplete
                                      THEN @ + 1 ELSE @]
           /\ IF ~row.exists
              THEN \* Failed to get sync state; the catch reads the body again
                   /\ resp' = [r0 EXCEPT !.status = 500,
                                         !.error = "BodyAlreadyConsumed"]
                   /\ UNCHANGED <<cursor, log>>
              ELSE IF row.isComplete
              THEN /\ resp' = [r0 EXCEPT !.status = 200, !.success = TRUE]
                   /\ UNCHANGED <<cursor, log>>
              ELSE IF crashed
              THEN /\ log' = LogStart(t)
                   /\ resp' = [r0 EXCEPT !.status = 500,
                                 !.error = "BodyAlreadyConsumed",
                                 !.net = IF t \in BatchTypes THEN 1 ELSE 0]
                   /\ UNCHANGED cursor
              ELSE /\ cursor' = [cursor EXCEPT ![t] =
                         Update(@, [offset |-> row.offset + n,
                                    totalFetched |-> row.totalFetched + n,
                                    isComplete |-> CompleteAfter(n, b)])]
                   /\ log' = LogEndRunning(LogStart(t), t, "completed", n,
                                           NoError)
                   /\ resp' = [r0 EXCEPT !.status = 200, !.success = TRUE,
                                 !.recordsProcessed = n,
                                 !.isComplete = CompleteAfter(n, b),
                                 !.net = 1]
  /\ UNCHANGED <<cb, now, health, rate, inv, call, obs, sizing, tables, proc, built, backoff, workers>>

----------------------------------------------------------------------------
(* Admin reset of a cursor and the passage of time between invocations     *)

\* resetPhase(t) for a type of T
resetPhase(T) ==
  /\ inv.kind = "idle"
  /\ budget.resets < MaxResets
  /\ budget' = [budget EXCEPT !.resets = @ + 1]
  /\ \E t \in T :
       cursor' = [cursor EXCEPT ![t] =
                    Update(@, [offset |-> 0, totalFetched |-> 0,
                               isComplete |-> FALSE, lastError |-> NoError,
                               retryCount |-> 0])]
  /\ resp' = NoResp
  /\ UNCHANGED <<log, cb, now, health, rate, inv, call, obs, sizing, tables, proc, built, backoff, workers>>

\* resetSyncState(t) for a type of T
resetSyncState(T) ==
  /\ inv.kind = "idle"
  /\ budget.resets < MaxResets
  /\ budget' = [budget EXCEPT !.resets = @ + 1]
  /\ \E t \in T :
       cursor' = [cursor EXCEPT ![t] =
                    Update(@, [offset |-> 0, totalFetched |-> 0,
                               isComplete |-> FALSE])]
  /\ resp' = NoResp
  /\ UNCHANGED <<log, cb, now, health, rate, inv, call, obs, sizing, tables, proc, built, backoff, workers>>

\* the clock advances by one of D while no invocation runs
Tick(D, maxTicks) ==
  /\ inv.kind = "idle"
  /\ call.pc = "idle"
  /\ budget.ticks < maxTicks
  /\ budget' = [budget EXCEPT !.ticks = @ + 1]
  /\ \E d \in D : now' = now + d
  /\ UNCHANGED <<cursor, log, cb, health, rate, inv, call, resp, obs,
               sizing, tables, proc, built, backoff, workers>>

----------------------------------------------------------------------------
(* The orchestrator: every handler, the API answering each call at once    *)

\* responses that end a call at its first attempt
CycleResponses ==
  {"ok", "emptyObject", "emptyList", "singleObject", "r413"}

CycleTypes == {"members", "committees", "strategic_plan"}

ResetTypes == {"members"}

Next ==
  \/ StartSingle(CycleTypes, BOOLEAN, MaxInvocations)
  \/ CallGate
  \/ CallHealth(MaxFaults)
  \/ CallFetch(CycleResponses, Jitters, MaxFaults)
  \/ FinishSingle(MaxFaults)
  \/ StartPlan(MaxInvocations)
  \/ PlanPhase
  \/ PlanPhaseFinish(MaxFaults)
  \/ PlanEnd
  \/ BatchSync(CycleTypes, MaxInvocations, MaxFaults)
  \/ resetPhase(ResetTypes)
  \/ resetSyncState(ResetTypes)

Spec == Init /\ [][Next]_vars

----------------------------------------------------------------------------
(* The resilience layer alone: a series of top-level outbound calls        *)

\* a handler calls makeRiksdagRequest(apiUrl)
BeginCall(maxCalls) ==
  /\ inv.kind = "idle"
  /\ call.pc = "idle"
  /\ budget.invocations < maxCalls
  /\ budget' = [budget EXCEPT !.invocations = @ + 1]
  /\ call' = [NoCall EXCEPT !.pc = "gate", !.cb0 = cb]
  /\ UNCHANGED <<cursor, log, cb, now, health, rate, inv, resp, obs,
               sizing, tables, proc, built, backoff, workers>>

\* the call has settled and its caller goes on
EndCall ==
  /\ inv.kind = "idle"
  /\ call.pc = "done"
  /\ call' = NoCall
  /\ UNCHANGED <<cursor, log, cb, now, health, rate, inv, resp, budget, obs,
               sizing, tables, proc, built, backoff, workers>>

BreakerResponses == {"ok", "r404", "r5xx"}

\* the second step brings an opened breaker exactly to its recovery timeout
BreakerTicks == {1, recoveryTimeout - Backoff(failureThreshold - 1)}

NextBreaker ==
  \/ BeginCall(MaxBreakerCalls)
  \/ CallGate
  \/ CallHealth(0)
  \/ CallFetch(BreakerResponses, {0}, MaxBreakerFaults)
  \/ EndCall
  \/ Tick(BreakerTicks, MaxBreakerTicks)

SpecBreaker == Init /\ [][NextBreaker]_vars

----------------------------------------------------------------------------
(* One outbound call against every answer the API can give                 *)

RetryResponses == Responses \ {"r429RetryAfter"}

NextRetry ==
  \/ BeginCall(MaxRetryCalls)
  \/ CallGate
  \/ CallHealth(MaxRetryFaults)
  \/ CallFetch(RetryResponses, {0}, MaxRetryFaults)
  \/ EndCall

\* the event loop runs every continuation that is ready: timers fire and
\* each fetch settles (by a response, a network error or the abort timer)
FairRetry ==
  /\ WF_vars(CallGate)
  /\ WF_vars(CallHealth(MaxRetryFaults))
  /\ WF_vars(CallFetch(RetryResponses, {0}, MaxRetryFaults))

SpecRetry == Init /\ [][NextRetry]_vars /\ FairRetry

----------------------------------------------------------------------------
(* The health check among calls that fail and a clock that passes its       *)
(* interval                                                                 *)

HealthResponses == {"ok", "r404"}

\* the first step stops one millisecond short of the health check interval
HealthTicks == {HEALTH_CHECK_INTERVAL - 1, 1}

NextHealth ==
  \/ BeginCall(MaxHealthCalls)
  \/ CallGate
  \/ CallHealth(MaxHealthFaults)
  \/ CallFetch(HealthResponses, {0}, MaxHealthFaults)
  \/ EndCall
  \/ Tick(HealthTicks, MaxHealthTicks)

SpecHealth == Init /\ [][NextHealth]_vars

----------------------------------------------------------------------------
(* The rate limiter: calls made back to back and 429 answers                *)

RateResponses == {"ok", "r429", "r429RetryAfter"}

RateTicks == {1}

NextRate ==
  \/ BeginCall(MaxRateCalls)
  \/ CallGate
  \/ CallHealth(0)
  \/ CallFetch(RateResponses, Jitters, MaxRateFaults)
  \/ EndCall
  \/ Tick(RateTicks, MaxRateTicks)

SpecRate == Init /\ [][NextRate]_vars

----------------------------------------------------------------------------
(* processDataByType: the upsert of one external record after the other    *)

\* identifiers of the API's records: member, committee, document, vote ids
ExternalIds == {"H1", "H1_1"}

\* second identifiers: the number of a speech in its document, the member
\* who cast a vote
SecondIds == {"1", "11"}

\* two versions of a record's other fields
Payloads == {"x", "y"}

\* a field the record does not have: undefined in the row object, NULL in
\* the column
Missing == "undefined"

\* the records the API can return for a type
ExternalRecords(t) ==
  [a : ExternalIds,
   b : IF t \in {"debates", "votes"} THEN SecondIds ELSE {""},
   data : Payloads]

\* the row the loop body builds from a record: k1, k2 are the columns named
\* in onConflict (iid; kod; anforande_id; dok_id; votering_id,intressent_id)
MapRecord(t, r) ==
  CASE t = "debates" ->
         [k1 |-> r.a \o "_" \o r.b, k2 |-> "", data |-> <<r.b, r.data>>]
    [] t = "votes" ->
         [k1 |-> r.a, k2 |-> r.b, data |-> <<r.b, r.data>>]
    [] OTHER ->
         [k1 |-> r.a, k2 |-> "", data |-> <<r.b, r.data>>]

\* mutant: a plain insert, the conflict target is not honoured
InsertRow(T, row) ==
  T \cup {[id |-> Cardinality(T) + 1, k1 |-> row.k1, k2 |-> row.k2,
           data |-> row.data]}

\* .upsert(row, { onConflict }): the row with the same conflict columns is
\* updated in place, otherwise the row is inserted with the next serial id;
\* a conflict column that is NULL conflicts with no row
UpsertRow(T, row) ==
  LET hit(x) == /\ x.k1 = row.k1 /\ x.k2 = row.k2
                /\ row.k1 # Missing /\ row.k2 # Missing
  IN  IF \E x \in T : hit(x)
      THEN {IF hit(x) THEN [x EXCEPT !.data = row.data] ELSE x : x \in T}
      ELSE T \cup {[id |-> Cardinality(T) + 1, k1 |-> row.k1, k2 |-> row.k2,
                    data |-> row.data]}

\* one iteration of the for loop of processDataByType for a type of T;
\* obs.latest keeps the last version processed of each record
ProcessRecord(T, maxProcessed) ==
  /\ obs.processed < maxProcessed
  /\ \E t \in T :
       \E r \in ExternalRecords(t) :
         /\ tables' = [tables EXCEPT ![t] = UpsertRow(@, MapRecord(t, r))]
         /\ obs' = [obs EXCEPT
                      !.processed = @ + 1,
                      !.latest[t] = {x \in @ : x.a # r.a \/ x.b # r.b}
                                    \cup {r}]
  /\ UNCHANGED <<cursor, log, cb, now, health, rate, inv, call, resp, budget,
                 sizing, proc, built, backoff, workers>>

NextRecords == ProcessRecord(KnownTypes, MaxProcessed)

SpecRecords == Init /\ [][NextRecords]_vars

----------------------------------------------------------------------------
(* processDataByType on one batch: records without their key, a null        *)
(* element, upserts the database rejects                                    *)

\* a record of the API that lacks its identifiers
KeylessRecord(t) ==
  [a |-> Missing, b |-> IF t \in {"debates", "votes"} THEN Missing ELSE "",
   data |-> "x"]

\* an element of the item array that is null
NullRecord == [a |-> "null", b |-> "null", data |-> "null"]

\* what the database does with an upsert: the row is written, or an error
\* comes back (a constraint, the connection)
Fates == {"stored", "rejected"}

\* the elements of an item array, each with the fate of its upsert
BatchItems(t) ==
  {it \in [rec : {r \in ExternalRecords(t) : r.data = "x"}
                   \cup {KeylessRecord(t), NullRecord},
           fate : Fates] :
     it.rec = NullRecord => it.fate = "rejected"}

\* the item arrays; a single item that is no array is wrapped into one
Batches(t) == UNION {[1..n -> BatchItems(t)] : n \in 1..MaxBatchLen}

\* for (const item of items) { try { await upsert(map(item)) } catch (e)
\* { console.error(`... ${item.<key>}`, e) } }: a rejected upsert is passed
\* over; mapping a null element throws inside the try, and so does the
\* catch handler that names the element's key, which ends the loop
RECURSIVE RunBatch(_, _, _, _)
RunBatch(t, items, i, st) ==
  IF i > Len(items) THEN st
  ELSE IF items[i].rec = NullRecord THEN [st EXCEPT !.thrown = TRUE]
  ELSE IF items[i].fate = "stored"
       THEN RunBatch(t, items, i + 1,
                     [st EXCEPT !.rows = UpsertRow(@, MapRecord(t, items[i].rec)),
                                !.upserted = @ + 1])
       ELSE RunBatch(t, items, i + 1, st)

InitProcess ==
  /\ InitProgram
  /\ backoff = NoBackoff
  /\ sizing = NoSizing
  /\ tables = NoTables
  /\ built = NoBuilt
  /\ \E t \in KnownTypes :
       \E items \in Batches(t) :
         proc = [NoProc EXCEPT !.pc = "called", !.syncType = t,
                               !.items = items]

\* recordsProcessed = await processDataByType(syncType, data, supabase);
\* proc.upserted observes how many upserts wrote a row
processDataByType ==
  /\ proc.pc = "called"
  /\ LET t == proc.syncType
         st == RunBatch(t, proc.items, 1,
                        [rows |-> tables[t], upserted |-> 0, thrown |-> FALSE])
     IN  /\ tables' = [tables EXCEPT ![t] = st.rows]
         /\ proc' = [proc EXCEPT
                       !.pc = IF st.thrown THEN "thrown" ELSE "returned",
                       !.recordsProcessed = IF st.thrown THEN 0
                                            ELSE Len(proc.items),
                       !.upserted = st.upserted]
  /\ UNCHANGED <<cursor, log, cb, now, health, rate, inv, call, resp, budget,
                 obs, sizing, built, backoff, workers>>

NextProcess == processDataByType

SpecProcess == InitProcess /\ [][NextProcess]_vars

----------------------------------------------------------------------------
(* buildApiUrl on its own: the query string as a sequence of parameters     *)

\* one parameter of a query string: key=value
Param(k, v) == [key |-> k, value |-> v]

\* API_CONFIG.endpoints: the parameters of each template, in order
EndpointParams(t) ==
  CASE t = "members" ->
         <<Param("iid", ""), Param("fnamn", ""), Param("enamn", ""), Param("f_ar", ""),
           Param("kn", ""), Param("parti", ""), Param("valkrets", ""),
           Param("rdlstatus", ""), Param("org", ""), Param("utformat", "json"),
           Param("termlista", "")>>
    [] t = "debates" ->
         <<Param("rm", ""), Param("bet", ""), Param("punkt", ""), Param("dok_id", ""),
           Param("anf_id", ""), Param("talare", ""), Param("parti", ""),
           Param("anforandetyp", ""), Param("anfnr", ""), Param("anf_datum_from", ""),
           Param("anf_datum_tom", ""), Param("kammaraktivitet", ""),
           Param("anf_sekunder", ""), Param("anf_klockslag_from", ""),
           Param("anf_klockslag_tom", ""), Param("anf_video", ""), Param("debatt", ""),
           Param("utformat", "json"), Param("a_sz", "50")>>
    [] t = "documents" ->
         <<Param("sok", ""), Param("doktyp", ""), Param("rm", ""), Param("from", ""),
           Param("tom", ""), Param("ts", ""), Param("bet", ""), Param("tempbet", ""),
           Param("nr", ""), Param("org", ""), Param("iid", ""), Param("webbtv", ""),
           Param("talare", ""), Param("exakt", ""), Param("planering", ""),
           Param("sort", "datum"), Param("sortorder", "desc"), Param("rapport", ""),
           Param("utformat", "json"), Param("a_sz", "50")>>
    [] t = "votes" ->
         <<Param("rm", ""), Param("bet", ""), Param("punkt", ""), Param("valkrets", ""),
           Param("rost", ""), Param("iid", ""), Param("sz", "50"), Param("utformat", "json")>>
    [] t = "committees" ->
         <<Param("iid", ""), Param("namn", ""), Param("typ", ""), Param("utformat", "json")>>

\* s.includes(sub)
Contains(s, sub) ==
  \E i \in 1..(Len(s) - Len(sub) + 1) : SubSeq(s, i, i + Len(sub) - 1) = sub

\* the text name= occurs at the end of the parameter's key
EndsWith(s, name) ==
  Len(s) >= Len(name) /\ SubSeq(s, Len(s) - Len(name) + 1, Len(s)) = name

\* /\d+/ matches the whole value
IsDigits(v) ==
  /\ Len(v) > 0
  /\ \A i \in 1..Len(v) :
       SubSeq(v, i, i) \in {"0", "1", "2", "3", "4", "5", "6", "7", "8", "9"}

\* url.includes(name + '=')
IncludesParam(q, name) == \E i \in 1..Len(q) : EndsWith(q[i].key, name)

\* url.replace(/name=\d+/, `name=${batchSize}`): the first match only
ReplaceSize(q, name, batchSize) ==
  LET M == {i \in 1..Len(q) : EndsWith(q[i].key, name) /\ IsDigits(q[i].value)}
  IN  IF M = {} THEN q
      ELSE LET m == CHOOSE i \in M : \A k \in M : i <= k
           IN  [q EXCEPT ![m].value = ToString(batchSize)]

\* the values a caller gives a filter
FilterValues == {"", "S", "2024-01-01", "A&B"}

\* encodeURIComponent on the values of FilterValues
encodeURIComponent(v) == IF v = "A&B" THEN "A%26B" ELSE v

\* url.replace(new RegExp(`${key}=[^&]*`), `${key}=${value}`): the first
\* parameter whose key ends with the filter's key takes the value
ReplaceFilter(q, key, value) ==
  LET M == {i \in 1..Len(q) : EndsWith(q[i].key, key)}
  IN  IF M = {} THEN q
      ELSE LET m == CHOOSE i \in M : \A k \in M : i <= k
           IN  [q EXCEPT ![m].value = value]

\* Object.entries(filters).forEach(...), from entry i on
RECURSIVE ApplyFilters(_, _, _)
ApplyFilters(q, filters, i) ==
  IF i > Len(filters) THEN q
  ELSE LET f == filters[i]
           q1 == IF f.value = "" THEN q
                 ELSE IF Contains(f.key, "_from") \/ Contains(f.key, "_tom")
                 THEN ReplaceFilter(q, f.key, encodeURIComponent(f.value))
                 ELSE Append(q, Param(f.key, encodeURIComponent(f.value)))
       IN  ApplyFilters(q1, filters, i + 1)

\* buildApiUrl(syncType, filters, offset, batchSize) for a known type
buildApiUrlQuery(syncType, filters, offset, batchSize) ==
  LET q0 == EndpointParams(syncType)
      q1 == IF IncludesParam(q0, "sz") THEN ReplaceSize(q0, "sz", batchSize)
            ELSE IF IncludesParam(q0, "a_sz")
                 THEN ReplaceSize(q0, "a_sz", batchSize)
                 ELSE q0
      q2 == IF offset > 0
            THEN Append(q1, Param("p", ToString((offset \div batchSize) + 1)))
            ELSE q1
  IN  ApplyFilters(q2, filters, 1)

\* the filter keys a caller sends
FilterKeys == {"parti", "anf_datum_from", "anf_datum_tom", "datum_from", "from"}

\* the entries of a filters object: no key twice
FilterLists ==
  {fs \in UNION {[1..n -> [key : FilterKeys, value : FilterValues]] :
                   n \in 0..MaxFilters} :
     \A i, j \in 1..Len(fs) : i # j => fs[i].key # fs[j].key}

\* offsets of a cursor: fresh, advanced
UrlOffsets == {0, 60}

InitUrl ==
  /\ InitProgram
  /\ backoff = NoBackoff
  /\ sizing = NoSizing
  /\ tables = NoTables
  /\ proc = NoProc
  /\ built \in [pc : {"asked"}, syncType : KnownTypes, filters : FilterLists,
                 offset : UrlOffsets, batchSize : RequestBatchSizes,
                 url : {<<>>}]

\* const apiUrl = buildApiUrl(syncType, filters, currentOffset, batchSize)
BuildUrl ==
  /\ built.pc = "asked"
  /\ built' = [built EXCEPT
                 !.pc = "built",
                 !.url = buildApiUrlQuery(built.syncType, built.filters,
                                          built.offset, built.batchSize)]
  /\ UNCHANGED <<cursor, log, cb, now, health, rate, inv, call, resp, budget,
                 obs, sizing, tables, proc, backoff, workers>>

NextUrl == BuildUrl

SpecUrl == InitUrl /\ [][NextUrl]_vars

----------------------------------------------------------------------------
(* getOptimalBatchSize on its own, over the inputs that reach each branch  *)

\* response times on both sides of each threshold of the function
Latencies == {1999, 2000, 5000, 5001, 10000, 10001, 15000, 15001}

BreakerStates == {"CLOSED", "OPEN", "HALF_OPEN"}

InitSizing ==
  /\ InitProgram
  /\ backoff = NoBackoff
  /\ tables = NoTables
  /\ proc = NoProc
  /\ built = NoBuilt
  /\ sizing \in [pc : {"asked"}, syncType : KnownTypes,
                  responseTime : Latencies, errorCount : 0..MaxErrorCount,
                  cbState : BreakerStates, size : {0}]

\* const optimalBatchSize = getOptimalBatchSize(type, responseTime, errorCount)
AskBatchSize ==
  /\ sizing.pc = "asked"
  /\ sizing' = [sizing EXCEPT
                  !.pc = "answered",
                  !.size = getOptimalBatchSize(sizing.syncType,
                                               sizing.responseTime,
                                               sizing.errorCount,
                                               sizing.cbState)]
  /\ UNCHANGED <<cursor, log, cb, now, health, rate, inv, call, resp, budget,
                 obs, tables, proc, built, backoff, workers>>

NextSizing == AskBatchSize

SpecSizing == InitSizing /\ [][NextSizing]_vars

----------------------------------------------------------------------------
(* Claims                                                                  *)

\* the response of the first handler to a finished cycle of a known type
CycleDone == resp.kind = "single" /\ resp.syncType \in KnownTypes

\* the successful phase results of the plan that runs or has just returned
PhaseResults == IF inv.kind = "plan" THEN inv.results ELSE resp.results

C3_CompleteIsZeroWork ==
  (resp.kind \in {"single", "batch"} /\ resp.before.exists
     /\ resp.before.isComplete) =>
    /\ resp.success
    /\ resp.recordsProcessed = 0
    /\ resp.net = 0
    /\ cursor[resp.syncType] = resp.before

C6_NeverDecreases ==
  [][\A t \in AllTypes :
       IF budget'.resets = budget.resets
       THEN /\ cursor'[t].offset >= cursor[t].offset
            /\ cursor'[t].totalFetched >= cursor[t].totalFetched
       ELSE /\ cursor'[t].offset \in {cursor[t].offset, 0}
            /\ cursor'[t].totalFetched \in {cursor[t].totalFetched, 0}]_vars

\* a reset has put an advanced cursor back to 0
C6_Witness ==
  /\ budget.resets > 0
  /\ cursor["members"].offset = 0
  /\ cursor["members"].totalFetched = 0
  /\ \E i \in 1..Len(log) :
       /\ log[i].syncType = "members"
       /\ log[i].status = "completed"
       /\ log[i].records > 0

\* C7: failureThreshold failures recorded in a row from Closed with
\* failureCount = 0 leave the breaker Open, and a call attempted while it is
\* Open with no more than recoveryTimeout elapsed since lastFailureTime fails
\* with CircuitBreakerOpen without a health probe or a GET.
C7_OpensAndRejects ==
  /\ [](obs.streak >= failureThreshold => cb.state = "OPEN")
  /\ [][(call.pc = "gate" /\ cb.state = "OPEN"
           /\ now - cb.lastFailureTime <= recoveryTimeout) =>
          /\ call'.pc = "done"
          /\ call'.result = "error"
          /\ call'.error = "CircuitBreakerOpen"
          /\ call'.gets = call.gets
          /\ call'.heads = call.heads
          /\ cb' = cb]_vars

\* a call was rejected at exactly recoveryTimeout after the fifth failure
C7_Witness ==
  /\ obs.streak = failureThreshold
  /\ cb.state = "OPEN"
  /\ now - cb.lastFailureTime = recoveryTimeout
  /\ call.pc = "done"
  /\ call.error = "CircuitBreakerOpen"
  /\ call.gets = 0
  /\ call.heads = 0

\* C8: with the breaker Open and more than recoveryTimeout elapsed since
\* lastFailureTime, the next call attempt puts it to HalfOpen with
\* successCount = 0 and passes the breaker.
C8_Recovers ==
  [][(call.pc = "gate" /\ cb.state = "OPEN"
        /\ now - cb.lastFailureTime > recoveryTimeout) =>
       /\ cb'.state = "HALF_OPEN"
       /\ cb'.successCount = 0
       /\ call'.pc = "health"]_vars

\* a call has passed the breaker one millisecond after the recovery timeout
C8_Witness ==
  /\ cb.state = "HALF_OPEN"
  /\ cb.successCount = 0
  /\ call.pc = "health"
  /\ now - cb.lastFailureTime = recoveryTimeout + 1

\* C9: in HalfOpen a recorded success adds 1 to successCount and closes the
\* breaker, with failureCount = 0, exactly when successCount reaches
\* halfOpenMaxCalls; a recorded failure opens it.
C9_HalfOpen ==
  [][(call.pc = "fetch" /\ cb.state = "HALF_OPEN") =>
       /\ call'.ops = <<"S">> =>
            /\ cb'.successCount = cb.successCount + 1
            /\ cb'.state \in {"HALF_OPEN", "CLOSED"}
            /\ cb'.state = "CLOSED" <=> cb'.successCount = halfOpenMaxCalls
            /\ cb'.state = "CLOSED" => cb'.failureCount = 0
       /\ (call'.ops # <<>> /\ Head(call'.ops) = "F") => cb'.state = "OPEN"]_vars

\* the third success in HalfOpen has closed the breaker
C9_Witness ==
  /\ cb.state = "CLOSED"
  /\ cb.successCount = halfOpenMaxCalls
  /\ cb.failureCount = 0
  /\ cb.lastFailureTime > 0
  /\ call.pc = "done"
  /\ call.ops = <<"S">>

\* C10: whatever the API answers, a top-level outbound call ends, with a
\* result or an error, after at most maxRetries + 1 GET attempts.
C10_CallEnds ==
  /\ [](call.gets <= maxRetries + 1)
  /\ (call.pc = "gate") ~> (call.pc = "done")

\* a call has failed at its ninth GET
C10_Witness ==
  /\ call.pc = "done"
  /\ call.result = "error"
  /\ call.gets = maxRetries + 1

\* C11: a call answered by HTTP 404 makes exactly one GET, is never retried
\* and fails with EndpointNotFound; a 2xx answer that is not JSON likewise
\* fails with InvalidContentType without a retry.
C11_NotFoundIsTerminal ==
  (call.last \in {"r404", "badContentType"}) =>
    /\ call.pc = "done"
    /\ call.result = "error"
    /\ call.error = IF call.last = "r404" THEN "EndpointNotFound"
                    ELSE "InvalidContentType"
    /\ call.retryCount = 0 => call.gets = 1

\* C12: a call answered by HTTP 413 or 414 is not retried: that answer ends
\* the call with ResponseTooLargeError, after exactly one GET when it is the
\* call's first answer.
C12_TooLargeIsTerminal ==
  (call.last = "r413") =>
    /\ call.pc = "done"
    /\ call.result = "error"
    /\ call.error = "ResponseTooLargeError"
    /\ call.gets = call.retryCount + 1

\* a call has failed on a 413 as its first answer
C12_Witness ==
  /\ call.last = "r413"
  /\ call.pc = "done"
  /\ call.gets = 1
  /\ call.error = "ResponseTooLargeError"
  /\ cb.failureCount = 1

\* the records counted by the phases of a visit sequence
RECURSIVE SumProcessed(_)
SumProcessed(V) ==
  IF V = <<>> THEN 0 ELSE Head(V).processed + SumProcessed(Tail(V))

\* the summary entries of phase p
EntriesOf(R, p) == {j \in 1..Len(R) : R[j].phase = p}

PlanVisits == IF inv.kind = "plan" THEN inv.visits ELSE resp.visits

\* C14: a plan visits the types in the order members, committees, documents,
\* debates, votes, each at most once; a type whose cursor is complete gets no
\* outbound request; and a phase starts only when the one before it has
\* written its cursor, so at most one phase is in flight.
C14_PlanOrder ==
  LET V == PlanVisits
      order == <<"members", "committees", "documents", "debates", "votes">>
  IN  /\ Len(V) <= Len(order)
      /\ \A i \in 1..Len(V) :
           /\ V[i].phase = order[i]
           /\ V[i].wasComplete => (V[i].outcome = "skipped" /\ V[i].net = 0)
      /\ inv.kind = "plan" =>
           /\ Len(V) = inv.phase - 1
           /\ inv.pc = "phase" => call.pc = "idle"
           /\ inv.pc = "call" =>
                /\ call.pc # "idle"
                /\ inv.phase <= Len(order)
                /\ ~ReadRow(inv.syncState).isComplete
      /\ resp.kind = "plan" => Len(V) = Len(order)

\* a plan has skipped a complete type and run the types after it
C14_Witness ==
  /\ resp.kind = "plan"
  /\ Len(resp.visits) = Len(PhaseOrder)
  /\ resp.visits[1].outcome = "skipped"
  /\ resp.visits[1].wasComplete
  /\ \A i \in 2..Len(resp.visits) :
       resp.visits[i].outcome = "data" /\ resp.visits[i].net > 0

\* C15: a request with preview = true is answered with the URL built from the
\* type, the current offset and the caller's batch size, with that batch size
\* and that offset; it makes no health probe and no GET and leaves every
\* cursor and the breaker, rate-limiter and health state unchanged.
C15_PreviewIsPure ==
  [][(resp'.kind = "preview" /\ budget'.invocations # budget.invocations) =>
       LET t == resp'.syncType
           off == ReadRow(cursor[t]).offset
       IN  /\ resp'.success
           /\ resp'.batch \in RequestBatchSizes
           /\ resp'.before = cursor[t]
           /\ resp'.url = [endpoint |-> t,
                           size |-> IF t \in {"debates", "documents", "votes"}
                                    THEN resp'.batch ELSE 0,
                           page |-> IF off > 0 THEN (off \div resp'.batch) + 1
                                    ELSE 0]
           /\ resp'.net = 0
           /\ call' = call
           /\ call.pc = "idle"
           /\ UNCHANGED <<cursor, cb, rate, health, now>>]_vars

\* a preview of an advanced cursor with a batch size that is not the
\* adaptive one
C15_Witness ==
  /\ resp.kind = "preview"
  /\ resp.before.offset > 0
  /\ resp.url.page > 0
  /\ resp.batch # getOptimalBatchSize(resp.syncType, NominalResponseTime,
                                      ReadRow(resp.before).retryCount, cb.state)
  /\ cursor[resp.syncType] = resp.before

\* C16: when a single cycle, a plan or a preview returns its response, the
\* attempt row it created as running has made exactly one transition, to
\* completed or failed.
C16_AttemptTerminated ==
  (resp.kind \in {"single", "plan", "preview"}) =>
    /\ log[resp.logId].status \in {"completed", "failed"}
    /\ log[resp.logId].transitions = 1

C18_SizeMonotone ==
  sizing.pc = "answered" =>
    \A e1 \in 0..sizing.errorCount :
      sizing.size <= getOptimalBatchSize(sizing.syncType, sizing.responseTime,
                                         e1, sizing.cbState)

\* C19: for every known type, latency, error count and breaker state the
\* adaptive batch size is an integer from 1 to the type's maxBatchSize.
C19_SizeInRange ==
  sizing.pc = "answered" =>
    /\ sizing.size \in Int
    /\ sizing.size >= 1
    /\ sizing.size <= maxBatchSize[sizing.syncType]

\* the smallest type at the highest latency and error count, breaker HalfOpen
C19_Witness ==
  /\ sizing.pc = "answered"
  /\ sizing.syncType = "committees"
  /\ sizing.responseTime > 15000
  /\ sizing.errorCount > 5
  /\ sizing.cbState = "HALF_OPEN"
  /\ sizing.size = 1

\* the natural key of an external record: member id, committee code,
\* document id; document id + number for speeches; vote id + member id
NaturalKey(t, r) ==
  IF t \in {"debates", "votes"} THEN <<r.a, r.b>> ELSE <<r.a>>

\* C20: each external record processed, once or several times, has exactly
\* one stored row, holding the fields of its last processing, and a table
\* has as many rows as natural keys were processed for it.
C20_UpsertIdempotent ==
  \A t \in KnownTypes :
    /\ \A r \in obs.latest[t] :
         LET rows == {x \in tables[t] : /\ x.k1 = MapRecord(t, r).k1
                                        /\ x.k2 = MapRecord(t, r).k2}
         IN  /\ Cardinality(rows) = 1
             /\ \A x \in rows : x.data = <<r.b, r.data>>
    /\ Cardinality(tables[t])
         = Cardinality({NaturalKey(t, r) : r \in obs.latest[t]})

\* a speech was processed twice and another speech of the same document once
C20_Witness ==
  /\ obs.processed = 3
  /\ Cardinality(obs.latest["debates"]) = 2
  /\ Cardinality(tables["debates"]) = 2
  /\ \E r1, r2 \in obs.latest["debates"] : r1.a = r2.a /\ r1.b # r2.b

\* C21: the recordsProcessed a batch returns is the number of records whose
\* upsert wrote a row, and a record without its natural key writes no row.
C21_CountsUpserted ==
  proc.pc = "returned" =>
    /\ proc.recordsProcessed = proc.upserted
    /\ LET keyless == MapRecord(proc.syncType, KeylessRecord(proc.syncType))
       IN  \A x \in tables[proc.syncType] :
             x.k1 # keyless.k1 \/ x.k2 # keyless.k2

\* C23: a batch is never aborted by one of its records: processDataByType
\* returns, and every record that has its key and whose upsert the database
\* accepts is stored, whatever came before it in the batch.
C23_BatchSurvivesRecord ==
  /\ proc.pc # "thrown"
  /\ proc.pc = "returned" =>
       \A i \in 1..Len(proc.items) :
         LET it == proc.items[i]
         IN  (it.fate = "stored" /\ it.rec.a # Missing) =>
               \E x \in tables[proc.syncType] :
                 /\ x.k1 = MapRecord(proc.syncType, it.rec).k1
                 /\ x.k2 = MapRecord(proc.syncType, it.rec).k2

\* C22: a cycle whose answer carries a single item that is no array
\* processes it as a batch of one: recordsProcessed = 1, the offset advances
\* by 1, and the answer is not taken as empty.
C22_SingleItemIsBatch ==
  (CycleDone /\ resp.answer = "singleObject") =>
    /\ resp.result = "data"
    /\ resp.recordsProcessed = 1
    /\ cursor[resp.syncType].offset = resp.before.offset + 1

\* the parameters of a query that carry a batch size
SizeParams(q) == {i \in 1..Len(q) : q[i].key \in {"sz", "a_sz"}}

\* C24: for every known type and batch size the built URL has exactly one
\* batch-size parameter, and its value is the batch size asked for.
C24_UrlCarriesBatchSize ==
  built.pc = "built" =>
    /\ Cardinality(SizeParams(built.url)) = 1
    /\ \A i \in SizeParams(built.url) :
         built.url[i].value = ToString(built.batchSize)

\* the value a percent-encoded parameter stands for
decodeURIComponent(w) == IF w = "A%26B" THEN "A&B" ELSE w

\* C25: in the built URL every date-range filter (key with _from or _tom)
\* that has a value is the value of exactly one parameter of that key, and
\* every other filter that has a value is a parameter appended after the
\* template's.
C25_FiltersApplied ==
  built.pc = "built" =>
    \A i \in 1..Len(built.filters) :
      LET f == built.filters[i]
          q == built.url
          at == {k \in 1..Len(q) : q[k].key = f.key}
      IN  f.value # "" =>
            IF Contains(f.key, "_from") \/ Contains(f.key, "_tom")
            THEN /\ Cardinality(at) = 1
                 /\ \A k \in at : decodeURIComponent(q[k].value) = f.value
            ELSE \E k \in at :
                   /\ k > Len(EndpointParams(built.syncType))
                   /\ decodeURIComponent(q[k].value) = f.value

\* the health check has a result that is still kept and says unhealthy
UnhealthyKept ==
  ~health.isApiHealthy /\ now - health.lastHealthCheck < HEALTH_CHECK_INTERVAL

\* C26: a health probe is sent only when HEALTH_CHECK_INTERVAL has passed
\* since the probe before it; and while an unhealthy result is kept a call
\* passes the breaker and fails at the health check with HealthCheckFailed,
\* without a probe and without a GET.
C26_HealthThrottled ==
  /\ [][call'.heads > call.heads =>
          now - health.lastHealthCheck >= HEALTH_CHECK_INTERVAL]_vars
  /\ [][(UnhealthyKept /\ call.pc = "gate") => call'.pc = "health"]_vars
  /\ [][(UnhealthyKept /\ call.pc = "health") =>
          /\ call'.pc = "done"
          /\ call'.result = "error"
          /\ call'.error = "HealthCheckFailed"
          /\ call'.gets = call.gets
          /\ call'.heads = call.heads
          /\ health' = health]_vars

\* a call made one millisecond before the interval ends was refused without
\* any request
C26_Witness ==
  /\ call.pc = "done"
  /\ call.error = "HealthCheckFailed"
  /\ call.gets = 0
  /\ call.heads = 0
  /\ now - health.lastHealthCheck = HEALTH_CHECK_INTERVAL - 1

\* C27: a call refused with HealthCheckFailed before any GET leaves the
\* breaker's state, failureCount, successCount and lastFailureTime as they
\* were when the call was made.
C27_HealthLeavesBreaker ==
  (call.pc = "done" /\ call.error = "HealthCheckFailed" /\ call.gets = 0) =>
    cb = call.cb0

\* the cooldown a 429 answer asks for
CooldownOf(c) ==
  IF c.r = "r429RetryAfter" THEN RetryAfterSeconds * 1000
  ELSE Min(baseDelay * Pow(backoffMultiplier, c.k) + c.j, maxDelay)

\* C28: of the GETs of calls made one after another, retries included, each
\* starts at least one second after the GET before it.
C28_OnePerSecond ==
  [][(call'.gets > call.gets /\ rate.requestCount > 0) =>
       rate'.lastRequestTime - rate.lastRequestTime >= 1000]_vars

\* the GET of a second call, made at once, started exactly one second after
\* the first call's
C28_Witness ==
  /\ budget.invocations = 2
  /\ call.gets = 1
  /\ call.last = "ok"
  /\ now = StartTime + 1000
  /\ rate.lastRequestTime = StartTime + 1000

\* C29: after a 429 answer received at time t with cooldown d no GET starts
\* before t + d, be it the retry or the GET of a later call.
C29_CooldownHonoured ==
  [][(call'.gets > call.gets /\ obs.cooling.r # "none") =>
       rate'.lastRequestTime >= obs.cooling.at + CooldownOf(obs.cooling)]_vars

\* the retry after a 429 with Retry-After started when the cooldown ended,
\* four seconds after the one-second window allowed it
C29_Witness ==
  /\ call.gets = 2
  /\ call.retryCount = 1
  /\ call.last = "ok"
  /\ obs.cooling.r = "r429RetryAfter"
  /\ rate.lastRequestTime = obs.cooling.at + RetryAfterSeconds * 1000
  /\ rate.lastRequestTime > obs.cooling.at + 1000

\* C30: a call whose attempts are all aborted by the request timeout makes
\* at most networkTimeoutRetries + 1 GETs, fewer than maxRetries + 1, and,
\* no attempt having been refused by the breaker or the health check before
\* its GET, ends with TimeoutError at the last of them.
C30_TimeoutBudget ==
  call.only = "timeout" =>
    /\ call.gets <= networkTimeoutRetries + 1
    /\ networkTimeoutRetries + 1 < maxRetries + 1
    /\ call.pc = "done" =>
         /\ call.result = "error"
         /\ call.error \in {"TimeoutError", "CircuitBreakerOpen",
                            "HealthCheckFailed"}
         /\ call.error = "TimeoutError" <=>
              call.gets = networkTimeoutRetries + 1

\* a call has failed with TimeoutError at its fourth aborted GET
C30_Witness ==
  /\ call.only = "timeout"
  /\ call.pc = "done"
  /\ call.error = "TimeoutError"
  /\ call.gets = networkTimeoutRetries + 1
  /\ cb.failureCount = 1

----------------------------------------------------------------------------
(* The backoff delay of one attempt, as a function of the answer, the      *)
(* attempt number and the jitter                                           *)

\* Math.random() * jitterMax, rounded down: 0 .. jitterMax - 1
DelayJitters == {0, 1, jitterMax - 1}

InitDelay ==
  /\ InitProgram
  /\ sizing = NoSizing
  /\ tables = NoTables
  /\ proc = NoProc
  /\ built = NoBuilt
  /\ backoff \in [pc : {"asked"}, r : Responses, k : 0..maxRetries,
                   j : DelayJitters, delay : {0}]

\* the delay makeRiksdagRequest sleeps after the answer r on attempt k
ComputeDelay ==
  /\ backoff.pc = "asked"
  /\ backoff' = [backoff EXCEPT
                   !.pc = "done",
                   !.delay = Attempt(backoff.r, backoff.k, backoff.j).delay]
  /\ UNCHANGED <<cursor, log, cb, now, health, rate, inv, call, resp, budget,
                 obs, sizing, tables, proc, built, workers>>

NextDelay == ComputeDelay

SpecDelay == InitDelay /\ [][NextDelay]_vars

\* C31: every delay the retry logic computes itself (every answer but a 429
\* with a Retry-After header), jitter included, is at most maxDelay
C31_DelayWithinMax ==
  (backoff.pc = "done" /\ backoff.r # "r429RetryAfter")
    => backoff.delay <= maxDelay

\* C32: during one HalfOpen episode (from the breaker's move to HalfOpen to
\* its leaving that state) at most halfOpenMaxCalls GETs are sent
C32_HalfOpenGetsBounded == obs.halfOpenGets <= halfOpenMaxCalls

----------------------------------------------------------------------------
(* Paging: cycles of one sized resource type against a source of           *)
(* SourceSize records that serves page p of size b as the positions        *)
(* (p - 1) * b .. p * b - 1                                                *)

SourceSize == 60

MaxPagingCycles == 8

MaxPagingFaults == 2

PagingTypes == {"documents"}

\* a failed cycle (a 413 is thrown at once) or an answered one
PagingResponses == {"ok", "r413"}

\* the positions the source serves for a request; a template without a
\* size parameter gets the whole list as its first page
SourcePage(url) ==
  LET p == IF url.page = 0 THEN 1 ELSE url.page
      size == IF url.size = 0 THEN SourceSize ELSE url.size
  IN  {pos \in 0..(SourceSize - 1) : (p - 1) * size <= pos /\ pos < p * size}

\* rateLimitedRequest(fetch + response handling) of a single cycle, the
\* source answering the request that buildApiUrl made
PagedFetch(R, maxFaults) ==
  /\ call.pc = "fetch"
  /\ inv.kind = "single"
  /\ \E a \in R :
       LET url == buildApiUrl(inv.syncType, inv.currentOffset, inv.batch)
           got == IF a = "ok" THEN SourcePage(url) ELSE {}
           n == Cardinality(got)
           r == IF a = "ok" /\ n = 0 THEN "emptyList" ELSE a
           t == RateStart(rate, now)
           o == Attempt(r, call.retryCount, 0)
           tOps == t + o.elapsed + (IF o.sleepFirst THEN o.delay ELSE 0)
           only == IF call.only \in {"none", r} THEN r ELSE "mixed"
       IN  /\ a # "ok" => budget.faults < maxFaults
           /\ budget' = IF a = "ok" THEN budget
                        ELSE [budget EXCEPT !.faults = @ + 1]
           /\ rate' = [lastRequestTime |-> t, requestCount |-> 1,
                       rateLimitResetTime |->
                         IF o.setReset THEN t + o.delay
                         ELSE rate.rateLimitResetTime]
           /\ cb' = ApplyOps(cb, o.ops, tOps)
           /\ obs' = [obs EXCEPT
                        !.streak = StreakAfter(@, cb, o.ops, tOps),
                        !.halfOpenGets = IF cb.state = "HALF_OPEN" THEN @ + 1
                                         ELSE @,
                        !.fetched = [@ EXCEPT ![inv.syncType] = @ \cup got]]
           /\ now' = t + o.elapsed + o.delay
           /\ call' =
                CASE o.kind = "retry" ->
                       [call EXCEPT !.pc = "gate", !.gets = @ + 1,
                                    !.retryCount = @ + 1, !.ops = o.ops,
                                    !.last = r, !.only = only,
                                    !.failures = @ + Failures(o.ops)]
                  [] o.kind = "return" ->
                       [call EXCEPT !.pc = "done", !.gets = @ + 1,
                                    !.result = o.result, !.ops = o.ops,
                                    !.items = n, !.last = r, !.only = only,
                                    !.failures = @ + Failures(o.ops)]
                  [] OTHER ->
                       [call EXCEPT !.pc = "done", !.gets = @ + 1,
                                    !.result = "error", !.error = o.error,
                                    !.ops = o.ops, !.last = r, !.only = only,
                                    !.failures = @ + Failures(o.ops)]
  /\ UNCHANGED <<cursor, log, health, inv, resp, sizing, tables, proc, built,
                 backoff, workers>>

NextPaging ==
  \/ StartSingle(PagingTypes, {FALSE}, MaxPagingCycles)
  \/ CallGate
  \/ CallHealth(0)
  \/ PagedFetch(PagingResponses, MaxPagingFaults)
  \/ FinishSingle(0)

\* the caller runs one cycle after the other, and the event loop runs every
\* continuation that is ready
FairPaging ==
  /\ WF_vars(StartSingle(PagingTypes, {FALSE}, MaxPagingCycles))
  /\ WF_vars(CallGate)
  /\ WF_vars(CallHealth(0))
  /\ WF_vars(PagedFetch(PagingResponses, MaxPagingFaults))
  /\ WF_vars(FinishSingle(0))

SpecPaging == Init /\ [][NextPaging]_vars /\ FairPaging

DesignedAnswers == {"r429", "r5xx", "timeout", "network", "r413"} \cup SuccessKinds

\* C34: a top-level call that ends in an error after reaching the network
\* (not refused by the open breaker or the health check) has recorded exactly
\* one failure over all its attempts, and a call that returns a result has
\* recorded none; stated for the calls all of whose attempts got the same
\* answer of DesignedAnswers
C34_OneFailurePerFailedCall ==
  (call.pc = "done" /\ call.only \in DesignedAnswers) =>
    /\ (/\ call.result = "error"
        /\ call.gets > 0
        /\ call.error \notin {"CircuitBreakerOpen", "HealthCheckFailed"})
         => call.failures = 1
    /\ call.result # "error" => call.failures = 0

----------------------------------------------------------------------------
(* Two invocations that run a successful cycle for the same resource type  *)
(* in the same isolate, interleaved at their awaits                        *)

ConcurrentType == "documents"

\* sync_state select of invocation w, after its api_sync_log insert
ReadCursor(w) ==
  /\ workers[w].pc = "idle"
  /\ LET t == ConcurrentType
         row == ReadRow(cursor[t])
     IN  /\ workers' = [workers EXCEPT ![w] =
                          [@ EXCEPT !.pc = "read", !.logId = Len(log) + 1,
                                    !.syncState = cursor[t],
                                    !.currentOffset = row.offset,
                                    !.batch = getOptimalBatchSize(
                                                t, NominalResponseTime,
                                                row.retryCount, cb.state)]]
         /\ log' = LogStart(t)
  /\ UNCHANGED <<cursor, cb, now, health, rate, inv, call, resp, budget, obs,
                 sizing, tables, proc, built, backoff>>

\* makeRiksdagRequest and processDataByType of invocation w: the first GET
\* is answered with n records, all of them processed
FetchWorker(w) ==
  /\ workers[w].pc = "read"
  /\ CanMakeRequestAdmits(cb, now)
  /\ \E n \in ItemCounts(workers[w].batch) :
       LET t == RateStart(rate, now)
           o == Attempt("ok", 0, 0)
       IN  /\ health' = IF HealthCached(health, now) THEN health
                        ELSE [lastHealthCheck |-> now, isApiHealthy |-> TRUE]
           /\ rate' = [rate EXCEPT !.lastRequestTime = t, !.requestCount = 1]
           /\ cb' = ApplyOps(CanMakeRequestState(cb, now), o.ops, t)
           /\ now' = t
           /\ workers' = [workers EXCEPT ![w] =
                            [@ EXCEPT !.pc = "fetched",
                                      !.recordsProcessed = n]]
  /\ UNCHANGED <<cursor, log, inv, call, resp, budget, obs, sizing, tables,
                 proc, built, backoff>>

\* sync_state upsert and api_sync_log update of invocation w
WriteCursor(w) ==
  /\ workers[w].pc = "fetched"
  /\ LET t == ConcurrentType
         me == workers[w]
         n == me.recordsProcessed
     IN  /\ cursor' = [cursor EXCEPT ![t] =
                         CursorAdvance(@, me.currentOffset,
                                       ReadRow(me.syncState).totalFetched,
                                       n, me.batch)]
         /\ log' = LogEnd(log, me.logId, "completed", n, NoError)
         /\ workers' = [workers EXCEPT ![w] =
                          [@ EXCEPT !.pc = "done",
                                    !.wrote = 1 + Cardinality(
                                      {v \in Workers : workers[v].pc = "done"})]]
  /\ UNCHANGED <<cb, now, health, rate, inv, call, resp, budget, obs, sizing,
                 tables, proc, built, backoff>>

NextConcurrent ==
  \E w \in Workers : ReadCursor(w) \/ FetchWorker(w) \/ WriteCursor(w)

SpecConcurrent == Init /\ [][NextConcurrent]_vars

\* both invocations have completed successfully
BothDone == \A w \in Workers : workers[w].pc = "done"

C36_CursorRowsKnown ==
  \A t \in AllTypes : cursor[t].exists => t \in KnownTypes

\* C37: the plan summary holds exactly one phase result for every phase the
\* plan executed (did not skip), whether the phase processed records, got
\* an empty response or failed, and none for a skipped phase
C37_OneResultPerExecutedPhase ==
  resp.kind = "plan" =>
    \A p \in KnownTypes :
      LET executed == \E i \in DOMAIN resp.visits :
                        /\ resp.visits[i].phase = p
                        /\ resp.visits[i].outcome # "skipped"
          entries == {i \in DOMAIN resp.results : resp.results[i].phase = p}
      IN  Cardinality(entries) = IF executed THEN 1 ELSE 0

----------------------------------------------------------------------------
(* The circuit breaker under any sequence of its three functions and any   *)
(* passage of time                                                         *)

MaxBreakerOps == 12

MaxOpsTicks == 2

\* a moment and the whole recovery timeout
OpsTicks == {1, recoveryTimeout}

\* canMakeRequest()
OpCanMakeRequest ==
  /\ budget.ops < MaxBreakerOps
  /\ budget' = [budget EXCEPT !.ops = @ + 1]
  /\ cb' = CanMakeRequestState(cb, now)
  /\ UNCHANGED <<cursor, log, now, health, rate, inv, call, resp, obs, sizing,
                 tables, proc, built, backoff, workers>>

\* recordSuccess()
OpRecordSuccess ==
  /\ budget.ops < MaxBreakerOps
  /\ budget' = [budget EXCEPT !.ops = @ + 1]
  /\ cb' = recordSuccess(cb)
  /\ UNCHANGED <<cursor, log, now, health, rate, inv, call, resp, obs, sizing,
                 tables, proc, built, backoff, workers>>

\* recordFailure()
OpRecordFailure ==
  /\ budget.ops < MaxBreakerOps
  /\ budget' = [budget EXCEPT !.ops = @ + 1]
  /\ cb' = recordFailure(cb, now)
  /\ UNCHANGED <<cursor, log, now, health, rate, inv, call, resp, obs, sizing,
                 tables, proc, built, backoff, workers>>

NextBreakerOps ==
  \/ OpCanMakeRequest
  \/ OpRecordSuccess
  \/ OpRecordFailure
  \/ Tick(OpsTicks, MaxOpsTicks)

SpecBreakerOps == Init /\ [][NextBreakerOps]_vars

BreakerTransitions ==
  {<<"CLOSED", "OPEN">>, <<"OPEN", "HALF_OPEN">>,
   <<"HALF_OPEN", "CLOSED">>, <<"HALF_OPEN", "OPEN">>}

\* C39: the breaker only makes the transitions Closed -> Open,
\* Open -> HalfOpen, HalfOpen -> Closed and HalfOpen -> Open (never
\* Open -> Closed, never Closed -> HalfOpen)
C39_BreakerTransitions ==
  [][cb'.state # cb.state => <<cb.state, cb'.state>> \in BreakerTransitions]_vars

\* the breaker has opened, recovered through HalfOpen and closed again
C39_Witness ==
  /\ cb.state = "CLOSED"
  /\ cb.successCount = halfOpenMaxCalls
  /\ cb.lastFailureTime > 0
  /\ cb.failureCount = 0

\* C40: failureCount >= 0 and successCount >= 0; Closed implies
\* failureCount < failureThreshold; Open or HalfOpen implies
\* failureCount >= failureThreshold
C40_BreakerCounters ==
  /\ cb.failureCount >= 0
  /\ cb.successCount >= 0
  /\ cb.state = "CLOSED" => cb.failureCount < failureThreshold
  /\ cb.state \in {"OPEN", "HALF_OPEN"} => cb.failureCount >= failureThreshold

\* a recovering breaker that has counted successes, after a failure recorded
\* while it was Open
C40_Witness ==
  /\ cb.state = "HALF_OPEN"
  /\ cb.successCount = halfOpenMaxCalls - 1
  /\ cb.failureCount > failureThreshold

====
